---- MODULE Spec2Model ----
(***************************************************************************)
(* Model of the linked-words game server (the persisted variant in         *)
(* src/public/js/fetchers.js): one game, its connections, the handlers of  *)
(* inbound messages cut at their awaits, and the events they send.         *)
(*                                                                         *)
(* Every db.* call executes atomically at the moment the handler issues    *)
(* it; the handler's continuation (the code after the await) runs in a     *)
(* later step, so two handlers interleave exactly at their awaits.         *)
(* The RedisClient (./redis) and Game (./game) classes are not among the   *)
(* sources; the Db* operators below model them from the specification's    *)
(* store contract, the call sites and the README's data layout.            *)
(***************************************************************************)
EXTENDS Integers, Sequences, FiniteSets, TLC

(* ------------------------------ bounds -------------------------------- *)

\* Messages accepted in one behaviour.
MaxMsgs == 3
\* Handlers suspended at an await at the same time.
MaxInflight == 2
\* Messages accepted in one behaviour in which each is handled before the next.
MaxSerialMsgs == 4
\* Messages and requests per behaviour where the word views are sent.
MaxWordsMsgs == 2
\* Largest clue number a client sends.
MaxClueNumber == 2
\* turnsLeft of a fresh Game.
TurnsInit == 3
\* Messages accepted in the runs of the connection registry.
MaxConnMsgs == 2
\* Messages accepted in the runs of the liveness check.
MaxLiveMsgs == 1
\* Messages being handled at the same time in the runs of the connection registry.
MaxConnInflight == 1
\* Messages accepted in the runs of two connections that come to share a player.
MaxSharedMsgs == 3
\* Messages accepted in the runs of connections naming two games.
MaxGameMsgs == 3
\* Messages accepted in the runs on a game that may not be stored yet.
MaxCreateMsgs == 4

(* --------------------------- the data model --------------------------- *)

Teams == {1, 2}
\* ws.teamId === undefined
NoTeam == 0
Conns == {"A", "B"}
NoConn == "-"
\* ws.playerId === undefined
NoPlayer == 0
Players == {1, 2}
\* ws.token, ws.facebookId === undefined
NoAnchor == "none"
Words == {"w1", "w2", "w3"}
NoWord == "none"
ClueWords == {"robot"}
ClueNumbers == 0 .. MaxClueNumber
Roles == {"agent", "bystander", "assassin"}
Tables == {1, 2}

\* The word tables `new Game()` may draw: per word, the role for team one and
\* the role for team two.
TableRoles ==
  << [w1 |-> <<"agent", "bystander">>,
      w2 |-> <<"bystander", "agent">>,
      w3 |-> <<"assassin", "agent">>],
     [w1 |-> <<"agent", "agent">>,
      w2 |-> <<"bystander", "assassin">>,
      w3 |-> <<"agent", "bystander">>] >>

RoleOf(k, w, t) == TableRoles[k][w][t]

OtherTeam(t) == IF t = 1 THEN 2 ELSE 1

\* The turn record game:{gameId}:turn; Idle is the absent hash.
Idle ==
  [clueGiverTeamId |-> NoTeam, clueWord |-> NoWord, clueNumber |-> 0, guessesLeft |-> 0]

IsIdle(turn) == turn.clueWord = NoWord

\* new Game(): a word table with nothing revealed, no turn, the full turn budget.
NewGame(k) ==
  [table |-> k,
   revealed |-> [w \in Words |-> [t \in Teams |-> FALSE]],
   agentsLeft |-> [t \in Teams |-> 0],
   turn |-> Idle,
   turnsLeft |-> TurnsInit]

AgentsRevealed(g, t) ==
  Cardinality({w \in Words : g.revealed[w][t] /\ RoleOf(g.table, w, t) = "agent"})

(* ----------------- the game state store (./redis, ./game) -------------- *)

\* db.setTurn(gameId, clueGiverTeamId, clueWord, clueNumber, guessesLeft):
\* installs the four fields of the turn hash as given; db.setTurn(gameId)
\* with no further argument clears it.
DbSetTurn(g, team, word, number, guesses) ==
  [g EXCEPT !.turn =
     IF word = NoWord
       THEN Idle
       ELSE [clueGiverTeamId |-> team, clueWord |-> word,
             clueNumber |-> number, guessesLeft |-> guesses]]

\* db.setTurnsLeft(gameId, n): one field of the game hash.
DbSetTurnsLeft(g, n) == [g EXCEPT !.turnsLeft = n]

\* db.setGame(gameId, new Game()): replaces the word table, the counters and
\* the turn record; team sets and token sets are other keys and stay.
DbSetGame(g, k) == NewGame(k)

\* The result of db.makeGuess: null (hit = FALSE) for a word already revealed
\* for the team or a team that does not exist, else the role revealed and the
\* counters after the guess.
NoGuess == [hit |-> FALSE, role |-> "none", turnsLeft |-> 0]

\* A variant of db.makeGuess that counts every revealed word as an agent found.
DbMakeGuessCountsAll(g, team, word) ==
  IF team \notin Teams \/ g.revealed[word][team]
    THEN [g |-> g, res |-> NoGuess]
    ELSE LET role == RoleOf(g.table, word, team)
             g1 == [g EXCEPT !.revealed[word][team] = TRUE,
                             !.agentsLeft[team] = @ + 1]
             left == g.turn.guessesLeft - 1
             ends == ~IsIdle(g.turn) /\ (left = 0 \/ role # "agent")
             g2 == IF IsIdle(g.turn) THEN g1
                   ELSE IF ends
                     THEN [g1 EXCEPT !.turn = Idle, !.turnsLeft = @ - 1]
                     ELSE [g1 EXCEPT !.turn.guessesLeft = left]
         IN [g |-> g2,
             res |-> [hit |-> TRUE, role |-> role, turnsLeft |-> g2.turnsLeft]]

\* db.makeGuess(gameId, teamId, word): recordGuess of the store contract plus
\* the guess transition of the turn state machine, as one store operation.
DbMakeGuess(g, team, word) ==
  IF team \notin Teams \/ g.revealed[word][team]
    THEN [g |-> g, res |-> NoGuess]
    ELSE LET role == RoleOf(g.table, word, team)
             g0 == [g EXCEPT !.revealed[word][team] = TRUE]
             g1 == [g0 EXCEPT !.agentsLeft[team] = AgentsRevealed(g0, team)]
             left == g.turn.guessesLeft - 1
             ends == ~IsIdle(g.turn) /\ (left = 0 \/ role # "agent")
             g2 == IF IsIdle(g.turn) THEN g1
                   ELSE IF ends
                     THEN [g1 EXCEPT !.turn = Idle, !.turnsLeft = @ - 1]
                     ELSE [g1 EXCEPT !.turn.guessesLeft = left]
         IN [g |-> g2,
             res |-> [hit |-> TRUE, role |-> role, turnsLeft |-> g2.turnsLeft]]

\* db.getWords(gameId, teamId): the word table filtered to the roles and
\* reveal flags of teamId; nothing of a team that is not teamId.
DbGetWords(g, team) ==
  [w \in Words |->
     [role |-> [t \in Teams |-> IF t = team THEN RoleOf(g.table, w, t) ELSE "hidden"],
      revealed |-> [t \in Teams |-> t = team /\ g.revealed[w][t]]]]

NoView ==
  [w \in Words |->
     [role |-> [t \in Teams |-> "hidden"], revealed |-> [t \in Teams |-> FALSE]]]

\* db.getTeamIdForPlayerId(gameId, playerId): the team whose set holds the
\* player, or none.
DbGetTeamIdForPlayerId(m, p) ==
  IF p \in m[1] THEN 1 ELSE IF p \in m[2] THEN 2 ELSE NoTeam

\* db.removePlayerFromTeam(gameId, playerId, teamId, token): removes the
\* member; nothing happens for a team or a player that does not exist.
DbRemovePlayerFromTeam(m, p, t) ==
  IF t \in Teams THEN [m EXCEPT ![t] = @ \ {p}] ELSE m

\* db.addPlayerToTeam(gameId, playerId, token, desiredTeamId): adds the player
\* to the desired team, or without one to the team with fewer members, and
\* answers the team.
DbAddPlayerToTeam(m, p, desired) ==
  LET t == IF desired \in Teams THEN desired
           ELSE IF Cardinality(m[2]) < Cardinality(m[1]) THEN 2 ELSE 1
  IN [m |-> [m EXCEPT ![t] = @ \cup {p}], team |-> t]

\* The token half of db.removePlayerFromTeam(gameId, playerId, teamId, token):
\* the token leaves the team's token set.
DbRemoveToken(tk, t, token) ==
  IF t \in Teams /\ token # NoAnchor THEN [tk EXCEPT ![t] = @ \ {token}] ELSE tk

\* The token half of db.addPlayerToTeam(gameId, playerId, token, desiredTeamId):
\* the token joins the token set of the team the player is put on.
DbAddToken(tk, t, token) ==
  IF t \in Teams /\ token # NoAnchor THEN [tk EXCEPT ![t] = @ \cup {token}] ELSE tk

(* ------------------------------- events -------------------------------- *)

\* One outbound socket message: broadcast (to = "all") or sent to one connection.
Ev(type, to) ==
  [type |-> type, to |-> to, who |-> NoConn, team |-> NoTeam, number |-> 0,
   word |-> NoWord, role |-> "none", view |-> NoView, player |-> NoPlayer]

TurnsEv(n) == [Ev("turns", "all") EXCEPT !.number = n]

(* ------------------------------ handlers ------------------------------- *)

\* An inbound message being handled: its fields, the await it is suspended at
\* (pc) and the locals of the handler.
Handler(id, type, c, word, number, table) ==
  [id |-> id, type |-> type, c |-> c, word |-> word, number |-> number,
   table |-> table, pc |-> "start", tl |-> 0, tl2 |-> 0, clue |-> NoWord,
   guess |-> NoGuess]

\* What one step of a handler yields: the store, the handler, the events sent
\* and the connections a sendWholeGameState was started for.
R(g, h, ev, spawn) == [g |-> g, h |-> h, ev |-> ev, spawn |-> spawn]

Next_(h, pc) == [h EXCEPT !.pc = pc]
Done(h) == [h EXCEPT !.pc = "done"]

(* giveClue(ws, clueWord, clueNumber) *)

\* const turnsLeftBefore = await db.getTurnsLeft(ws.gameId)
GiveClueRead(g, w, h) == R(g, [Next_(h, "gc1") EXCEPT !.tl = g.turnsLeft], <<>>, {})

\* db.setTurn(ws.gameId, ws.teamId, clueWord, clueNumber, clueNumber)
GiveClueSetTurn(g, w, h) ==
  R(DbSetTurn(g, w[h.c].teamId, h.word, h.number, h.number), Next_(h, "gc2"), <<>>, {})

\* .then(() => db.getTurnsLeft(ws.gameId))
GiveClueReadAfter(g, w, h) ==
  R(g, [Next_(h, "gc3") EXCEPT !.tl2 = g.turnsLeft], <<>>, {})

\* the 'turns' broadcast when the two reads differ, then
\* await db.getTokensOnTeam(ws.gameId, otherTeamId)
GiveClueTurns(g, w, h) ==
  R(g, Next_(h, "gc4"), IF h.tl # h.tl2 THEN <<TurnsEv(h.tl2)>> ELSE <<>>, {})

\* otherTeamId = ws.teamId === 'one' ? 2 : 1 is 1 for every teamId the server
\* stores (1, 2 or undefined), and playerGivingClue is derived from it.
GiveClueBroadcast(g, w, h) ==
  R(g, Done(h),
    <<[Ev("clueGiven", "all") EXCEPT !.team = 1, !.number = h.number, !.word = h.word]>>,
    {})

(* endTurn(gameId) *)

\* const turnsLeft = await db.getTurnsLeft(gameId)
EndTurnRead(g, w, h) == R(g, [Next_(h, "et1") EXCEPT !.tl = g.turnsLeft], <<>>, {})

\* db.setTurnsLeft(gameId, turnsLeft - 1)
EndTurnWrite(g, w, h) == R(DbSetTurnsLeft(g, h.tl - 1), Next_(h, "et2"), <<>>, {})

\* .then(() => db.setTurn(gameId))
EndTurnClear(g, w, h) == R(DbSetTurn(g, NoTeam, NoWord, 0, 0), Next_(h, "et3"), <<>>, {})

\* .then(() => broadcast(gameId, { type: 'turns', ... turnsLeft - 1 }))
EndTurnBroadcast(g, w, h) == R(g, Done(h), <<TurnsEv(h.tl - 1)>>, {})

(* makeGuess(ws, word) *)

\* await db.getTurn(ws.gameId): null while no turn hash exists
MakeGuessGetTurn(g, w, h) == R(g, [Next_(h, "mg1") EXCEPT !.clue = g.turn.clueWord], <<>>, {})

\* const { clueWord } = <the result>: destructuring null throws and the
\* handler ends there; else const turnsLeft = await db.getTurnsLeft(ws.gameId)
MakeGuessRead(g, w, h) ==
  IF h.clue = NoWord
    THEN R(g, Done(h), <<>>, {})
    ELSE R(g, [Next_(h, "mg2") EXCEPT !.tl = g.turnsLeft], <<>>, {})

\* A makeGuess that records the guess for the team that is not the guesser's.
MakeGuessCallOtherTeam(g, w, h) ==
  LET r == DbMakeGuess(g, OtherTeam(w[h.c].teamId), h.word)
  IN R(r.g, [Next_(h, "mg3") EXCEPT !.guess = r.res], <<>>, {})

\* const guess = await db.makeGuess(ws.gameId, ws.teamId, word)
MakeGuessCall(g, w, h) ==
  LET r == DbMakeGuess(g, w[h.c].teamId, h.word)
  IN R(r.g, [Next_(h, "mg3") EXCEPT !.guess = r.res], <<>>, {})

\* A makeGuess without the early return for a null guess.
MakeGuessCheckNoReturn(g, w, h) == R(g, Next_(h, "mg4"), <<>>, {})

\* if (!guess) return; await db.getAgentsLeft(ws.gameId)
MakeGuessCheck(g, w, h) ==
  IF ~h.guess.hit THEN R(g, Done(h), <<>>, {}) ELSE R(g, Next_(h, "mg4"), <<>>, {})

\* broadcast 'guess'; await db.getTokensOnTeam(ws.gameId, otherTeamId)
MakeGuessBroadcast(g, w, h) ==
  R(g, Next_(h, "mg5"),
    <<[Ev("guess", "all") EXCEPT !.word = h.word, !.role = h.guess.role,
                                 !.number = h.guess.turnsLeft]>>,
    {})

\* await db.getPlayer(ws.playerId)
MakeGuessGetPlayer(g, w, h) == R(g, Next_(h, "mg6"), <<>>, {})

\* iOSNotify; the 'turns' broadcast when the guess changed turnsLeft
MakeGuessTurns(g, w, h) ==
  R(g, Done(h), IF h.tl # h.guess.turnsLeft THEN <<TurnsEv(h.guess.turnsLeft)>> ELSE <<>>, {})

(* handleStartNewGame(ws) *)

\* A handleStartNewGame that stores nothing.
StartNewSetKeepsGame(g, w, h) == R(g, Next_(h, "sn1"), <<>>, {})

\* db.setGame(ws.gameId, new Game())
StartNewSet(g, w, h) == R(DbSetGame(g, h.table), Next_(h, "sn1"), <<>>, {})

\* sendWholeGameState(client) for every client of the game, then
\* await db.getTokensOnTeam(ws.gameId, otherTeamId)
StartNewSend(g, w, h) == R(g, Next_(h, "sn2"), <<>>, Conns)

\* iOSNotify
StartNewNotify(g, w, h) == R(g, Done(h), <<>>, {})

\* One step of a handler of the turn state machine: from its await to the next.
TurnStep(g, w, h) ==
  CASE h.type = "giveClue" /\ h.pc = "start" -> GiveClueRead(g, w, h)
    [] h.type = "giveClue" /\ h.pc = "gc1" -> GiveClueSetTurn(g, w, h)
    [] h.type = "giveClue" /\ h.pc = "gc2" -> GiveClueReadAfter(g, w, h)
    [] h.type = "giveClue" /\ h.pc = "gc3" -> GiveClueTurns(g, w, h)
    [] h.type = "giveClue" /\ h.pc = "gc4" -> GiveClueBroadcast(g, w, h)
    [] h.type = "endTurn" /\ h.pc = "start" -> EndTurnRead(g, w, h)
    [] h.type = "endTurn" /\ h.pc = "et1" -> EndTurnWrite(g, w, h)
    [] h.type = "endTurn" /\ h.pc = "et2" -> EndTurnClear(g, w, h)
    [] h.type = "endTurn" /\ h.pc = "et3" -> EndTurnBroadcast(g, w, h)
    [] h.type = "guess" /\ h.pc = "start" -> MakeGuessGetTurn(g, w, h)
    [] h.type = "guess" /\ h.pc = "mg1" -> MakeGuessRead(g, w, h)
    [] h.type = "guess" /\ h.pc = "mg2" -> MakeGuessCall(g, w, h)
    [] h.type = "guess" /\ h.pc = "mg3" -> MakeGuessCheck(g, w, h)
    [] h.type = "guess" /\ h.pc = "mg4" -> MakeGuessBroadcast(g, w, h)
    [] h.type = "guess" /\ h.pc = "mg5" -> MakeGuessGetPlayer(g, w, h)
    [] h.type = "guess" /\ h.pc = "mg6" -> MakeGuessTurns(g, w, h)
    [] h.type = "startNewGame" /\ h.pc = "start" -> StartNewSet(g, w, h)
    [] h.type = "startNewGame" /\ h.pc = "sn1" -> StartNewSend(g, w, h)
    [] h.type = "startNewGame" /\ h.pc = "sn2" -> StartNewNotify(g, w, h)

\* A handler run from its current await to its end with nothing in between.
RECURSIVE RunToEnd(_, _, _)
RunToEnd(g, w, h) ==
  IF h.pc = "done" THEN g
  ELSE LET r == TurnStep(g, w, h) IN RunToEnd(r.g, w, r.h)

\* The events a handler sends when run to its end with nothing in between.
RECURSIVE EventsToEnd(_, _, _)
EventsToEnd(g, w, h) ==
  IF h.pc = "done" THEN <<>>
  ELSE LET r == TurnStep(g, w, h) IN r.ev \o EventsToEnd(r.g, w, r.h)

\* The messages of a sequence handled one after the other.
RECURSIVE Serial(_, _, _)
Serial(g, w, hs) ==
  IF hs = <<>> THEN g ELSE Serial(RunToEnd(g, w, Head(hs)), w, Tail(hs))

(* the notification step of giveClue, makeGuess and handleStartNewGame *)

\* The team whose tokens the handler asks the store for. giveClue compares
\* ws.teamId with 'one', which no stored teamId equals, so it asks for team 1;
\* makeGuess and handleStartNewGame compare it with 1.
NotifyTeam(w, h) ==
  IF h.type = "giveClue" THEN 1
  ELSE IF w[h.c].teamId = 1 THEN 2 ELSE 1

\* The awaits at whose start db.getTokensOnTeam is called, and those after
\* which iOSNotify is called.
TokenFetchPcs == {"gc3", "mg4", "sn1"}
NotifyPcs == {"gc4", "mg6", "sn2"}

\* const tokens = await db.getTokensOnTeam(ws.gameId, otherTeamId): the answer
\* the handler h holds after its step, fs being the answers held before.
FetchStep(fs, tk, w, h) ==
  IF h.pc \in TokenFetchPcs
    THEN fs \cup {[id |-> h.id, team |-> NotifyTeam(w, h), tokens |-> tk[NotifyTeam(w, h)]]}
  ELSE IF h.pc \in NotifyPcs THEN {f \in fs : f.id # h.id}
  ELSE fs

\* iOSNotify(gameId, tokens, data): if (!tokens || !tokens.length) return;
\* iosNotificationService.send(tokens, dataToSend)
IOSNotify(by, team, tk) ==
  IF tk = {} THEN <<>> ELSE <<[by |-> by, team |-> team, tokens |-> tk]>>

\* The calls of the collaborator the step of h makes.
NotesStep(fs, h) ==
  IF h.pc \in NotifyPcs
    THEN LET f == CHOOSE x \in fs : x.id = h.id IN IOSNotify(h.c, f.team, f.tokens)
    ELSE <<>>

\* The calls of the collaborator a handler makes when run to its end with
\* nothing in between.
RECURSIVE NotesToEnd(_, _, _, _)
NotesToEnd(g, w, tk, h) ==
  IF h.pc = "done" THEN <<>>
  ELSE LET r == TurnStep(g, w, h)
       IN (IF h.pc \in NotifyPcs
             THEN IOSNotify(h.c, NotifyTeam(w, h), tk[NotifyTeam(w, h)])
             ELSE <<>>) \o NotesToEnd(r.g, w, tk, r.h)

(* sendWholeGameState(ws): started by a call, it runs on at its own awaits *)

\* A sendWholeGameState suspended at await db.getAgentsLeft(ws.gameId). Two
\* pending sends for one connection with the same locals are kept once.
SendState(c) == [c |-> c, pc |-> "ss1", view |-> NoView, n |-> 0, turn |-> Idle]

\* words: await db.getWords(ws.gameId, ws.teamId)
SendStateWords(g, w, t) ==
  [t |-> [t EXCEPT !.pc = "ss2", !.view = DbGetWords(g, w[t.c].teamId)], ev |-> <<>>]

\* send 'words'; turnsLeft: await db.getTurnsLeft(ws.gameId)
SendStateTurns(g, w, t) ==
  [t |-> [t EXCEPT !.pc = "ss3", !.n = g.turnsLeft],
   ev |-> <<[Ev("words", t.c) EXCEPT !.view = t.view]>>]

\* send 'turns'; maybeSendCurrentClue(ws): await db.getTurn(ws.gameId) || {}
SendStateClue(g, w, t) ==
  [t |-> [t EXCEPT !.pc = "ss4", !.turn = g.turn],
   ev |-> <<[Ev("turns", t.c) EXCEPT !.number = t.n]>>]

\* if (!clueWord) return; send 'clueGiven' with number: guessesLeft
SendStateEnd(g, w, t) ==
  [t |-> [t EXCEPT !.pc = "done"],
   ev |-> IF t.turn.clueWord = NoWord THEN <<>>
          ELSE <<[Ev("clueGiven", t.c) EXCEPT
                    !.team = IF t.turn.clueGiverTeamId = 1 THEN 1 ELSE 2,
                    !.number = t.turn.guessesLeft, !.word = t.turn.clueWord]>>]

SendStateStep(g, w, t) ==
  CASE t.pc = "ss1" -> SendStateWords(g, w, t)
    [] t.pc = "ss2" -> SendStateTurns(g, w, t)
    [] t.pc = "ss3" -> SendStateClue(g, w, t)
    [] t.pc = "ss4" -> SendStateEnd(g, w, t)

(* ------------------------------- state --------------------------------- *)

VARIABLES
  game,      \* the stored game record
  ws,        \* per connection: the fields the server keeps on the socket
  inflight,  \* the handlers suspended at an await
  tasks,     \* the sendWholeGameState calls suspended at an await
  nmsgs,     \* messages accepted so far
  out,       \* the events sent by the last step
  epoch,     \* history: the store when the server was last idle, and the
             \* messages accepted since
  hist,      \* history: the guesses that followed the last clue
  members,   \* the stored team sets game:{gameId}:team:{1,2}
  teamflight,\* the handleTeamChanged calls suspended at an await
  leaving,   \* the /leave requests suspended at an await
  tlog,      \* history: per connection, its changeTeam messages
  tokens,    \* the stored token sets game:{gameId}:tokens:{1,2}
  notes,     \* the calls of iosNotificationService.send made by the last step
  fetched,   \* the tokens db.getTokensOnTeam answered to the suspended handlers
  sockets,   \* sockets[gameId]: whether the set exists, and the connections in it
  sock,      \* per connection: its readyState, ws.isAlive, whether ws.gameId is set,
             \* and history: whether a ping is unanswered, the unparsable texts received
  names,     \* per connection: ws.playerName
  anchors,   \* the stored lookups token:{token} and facebook:{facebookId}
  playerIds, \* the stored counter playerIds: the last player id used
  up,        \* whether the server process is running
  pflight,   \* the handlePlayerChanged calls suspended at an await
  store,     \* where a game may not be stored yet: the record under one game id,
             \* the Game objects made, sockets[gameId], the getOrCreateGame calls
             \* between their reads and writes, and history of their writes
  games      \* where the connections name more than one game: sockets[gameId] and
             \* ws.gameId by game id, turnsLeft of each game, and history: the
             \* game the last message named and the game its handler wrote

vars ==
  <<game, ws, inflight, tasks, nmsgs, out, epoch, hist, members, teamflight,
    leaving, tlog, tokens, notes, fetched, sockets, sock, names, anchors,
    playerIds, up, pflight, games, store>>

\* The notification side: the token sets and the calls of the collaborator.
noteVars == <<tokens, notes, fetched>>

\* The connection registry, the socket state and the player store.
connVars == <<sockets, sock, names, anchors, playerIds, up, pflight, games, store>>

\* What the handlers of the turn state machine leave alone.
teamVars == <<members, teamflight, leaving, tlog>>

\* No clue followed yet.
NoHist ==
  [valid |-> FALSE, team |-> NoTeam, n |-> 0, turnsAtClue |-> 0, guesses |-> 0,
   endedAt |-> 0, firstFresh |-> FALSE]

Quiescent == inflight = {}

\* The handlers suspended at an await.
Busy == Cardinality(inflight) + Cardinality(teamflight) + Cardinality(leaving)

\* The game ids the clients name, and no game id.
GameIds == {"g1", "g2"}
NoGame == "none"

\* No socket has named a game: no sockets[gameId], no ws.gameId, each game
\* stored as new.
NoGames ==
  [live |-> [g \in GameIds |-> [exists |-> FALSE, set |-> {}]],
   bound |-> [c \in Conns |-> NoGame],
   closed |-> {},
   turnsLeft |-> [g \in GameIds |-> TurnsInit],
   named |-> NoGame,
   acted |-> NoGame]

\* No record under the game id, no Game made, no sockets[gameId].
NoRecord == 0
NoStore ==
  [record |-> NoRecord, made |-> 0, exists |-> FALSE, set |-> {}, calls |-> {},
   got |-> [c \in Conns |-> NoRecord], fresh |-> 0, over |-> FALSE]

\* The device tokens and the account ids clients present.
Tokens == {"tokA", "tokB"}
FacebookIds == {"fbA"}
NoName == "none"
Names == {"Ada", "Grace"}

\* The token sets of the teams the connections took, the connections
\* registered and open, the players of the connections stored.
InitRestWith(st) ==
  /\ tokens = [t \in Teams |->
                 {ws[c].token : c \in {x \in Conns : ws[x].teamId = t /\ ws[x].token # NoAnchor}}]
  /\ notes = <<>>
  /\ fetched = {}
  /\ sockets = [exists |-> TRUE, set |-> Conns]
  /\ sock = [c \in Conns |->
               [state |-> "open", isAlive |-> TRUE, gameId |-> TRUE, ping |-> FALSE, bad |-> 0]]
  /\ names = [c \in Conns |-> IF c = "A" THEN "Ada" ELSE "Grace"]
  /\ anchors = [a \in Tokens \cup FacebookIds |-> IF a = "tokA" THEN 1 ELSE NoPlayer]
  /\ playerIds = 2
  /\ up = TRUE
  /\ pflight = {}
  /\ games = NoGames
  /\ store = st

InitRest == InitRestWith(NoStore)

\* Two connections that joined the game and took a team each.
InitTurnWith(st) ==
  /\ \E k \in Tables : game = NewGame(k)
  /\ ws = [c \in Conns |->
             IF c = "A"
               THEN [teamId |-> 1, playerId |-> 1, token |-> "tokA", facebookId |-> NoAnchor]
               ELSE [teamId |-> 2, playerId |-> 2, token |-> NoAnchor, facebookId |-> NoAnchor]]
  /\ members = [t \in Teams |-> {p \in Players : p = t}]
  /\ teamflight = {}
  /\ leaving = {}
  /\ tlog = [c \in Conns |-> <<>>]
  /\ inflight = {}
  /\ tasks = {}
  /\ nmsgs = 0
  /\ out = <<>>
  /\ epoch = [base |-> game, batch |-> <<>>]
  /\ hist = NoHist
  /\ InitRestWith(st)

InitTurn == InitTurnWith(NoStore)

\* ws.on('message') -> handleRequest: the handler runs to its first await.
Start(h0) ==
  /\ nmsgs < MaxMsgs
  /\ Busy < MaxInflight
  /\ LET r == TurnStep(game, ws, h0)
     IN /\ game' = r.g
        /\ inflight' = inflight \cup {r.h}
        /\ tasks' = tasks \cup {SendState(c) : c \in r.spawn}
        /\ out' = r.ev
  /\ nmsgs' = nmsgs + 1
  /\ epoch' = IF Quiescent THEN [base |-> game, batch |-> <<h0>>]
              ELSE [epoch EXCEPT !.batch = Append(@, h0)]
  /\ notes' = <<>>
  /\ UNCHANGED <<ws, hist, teamVars, tokens, fetched, connVars>>

GiveClueMsg ==
  \E c \in Conns, cw \in ClueWords, n \in ClueNumbers :
    Start(Handler(nmsgs + 1, "giveClue", c, cw, n, 0))

GuessMsg ==
  \E c \in Conns, word \in Words : Start(Handler(nmsgs + 1, "guess", c, word, 0, 0))

\* endTurn(gameId) is not given the connection.
EndTurnMsg == Start(Handler(nmsgs + 1, "endTurn", NoConn, NoWord, 0, 0))

\* A suspended handler resumes and runs to its next await or its end.
Continue ==
  \E h \in inflight :
    LET r == TurnStep(game, ws, h)
    IN /\ game' = r.g
       /\ inflight' = (inflight \ {h}) \cup (IF r.h.pc = "done" THEN {} ELSE {r.h})
       /\ tasks' = tasks \cup {SendState(c) : c \in r.spawn}
       /\ out' = r.ev
       /\ fetched' = FetchStep(fetched, tokens, ws, h)
       /\ notes' = NotesStep(fetched, h)
       /\ UNCHANGED <<ws, nmsgs, epoch, hist, teamVars, tokens, connVars>>

Next ==
  \/ GiveClueMsg
  \/ GuessMsg
  \/ EndTurnMsg
  \/ Continue

\* The clue, guess and end-of-turn handlers interleaving at their awaits.
Spec == InitTurn /\ [][Next]_vars

(* ------------------------- handleTeamChanged --------------------------- *)

\* handleRequest 'changeTeam': handleTeamChanged(ws, teamId === 'one' ? 1 : 2),
\* with the locals of the call.
TeamHandler(id, c, team) ==
  [id |-> id, c |-> c, team |-> team, pc |-> "start", existing |-> NoTeam,
   next |-> NoTeam, view |-> NoView]

\* What one step of handleTeamChanged yields.
TR(m, w, h, ev) == [m |-> m, w |-> w, h |-> h, ev |-> ev]

PlayerEv(type, w, c) ==
  [Ev(type, "all") EXCEPT !.who = c, !.team = w[c].teamId, !.player = w[c].playerId]

\* const teamIdForPlayerId = await db.getTeamIdForPlayerId(ws.gameId, ws.playerId)
TeamChangeLookup(g, m, w, h) ==
  TR(m, w, [Next_(h, "tc1") EXCEPT !.existing = DbGetTeamIdForPlayerId(m, w[h.c].playerId)],
     <<>>)

\* desiredTeamId = teamId || teamIdForPlayerId; on another team now: broadcast
\* 'playerLeft' and db.removePlayerFromTeam; then
\* const nextTeamId = await db.addPlayerToTeam(..., desiredTeamId)
TeamChangeAdd(g, m, w, h) ==
  LET desired == IF h.team # NoTeam THEN h.team ELSE h.existing
      leaves == w[h.c].teamId # NoTeam /\ w[h.c].teamId # desired
      m1 == IF leaves THEN DbRemovePlayerFromTeam(m, w[h.c].playerId, w[h.c].teamId) ELSE m
      a == DbAddPlayerToTeam(m1, w[h.c].playerId, desired)
  IN TR(a.m, w, [Next_(h, "tc2") EXCEPT !.next = a.team],
        IF leaves THEN <<PlayerEv("playerLeft", w, h.c)>> ELSE <<>>)

\* A handleTeamChanged that announces the team whatever the connection holds.
TeamChangeBindAlways(g, m, w, h) ==
  TR(m, [w EXCEPT ![h.c].teamId = h.next], Next_(h, "tc3"), <<>>)

\* if (nextTeamId !== ws.teamId) { ws.teamId = nextTeamId;
\* await db.getAgentsLeft(ws.gameId) ... }
TeamChangeBind(g, m, w, h) ==
  IF h.next # w[h.c].teamId
    THEN TR(m, [w EXCEPT ![h.c].teamId = h.next], Next_(h, "tc3"), <<>>)
    ELSE TR(m, w, Done(h), <<>>)

\* broadcast 'playerJoined'; send 'teamChanged'; words: await
\* db.getWords(ws.gameId, ws.teamId)
TeamChangeJoined(g, m, w, h) ==
  TR(m, w, [Next_(h, "tc4") EXCEPT !.view = DbGetWords(g, w[h.c].teamId)],
     <<PlayerEv("playerJoined", w, h.c),
       [Ev("teamChanged", h.c) EXCEPT !.who = h.c, !.team = w[h.c].teamId]>>)

\* send 'words'
TeamChangeWords(g, m, w, h) ==
  TR(m, w, Done(h), <<[Ev("words", h.c) EXCEPT !.view = h.view]>>)

TeamStep(g, m, w, h) ==
  CASE h.pc = "start" -> TeamChangeLookup(g, m, w, h)
    [] h.pc = "tc1" -> TeamChangeAdd(g, m, w, h)
    [] h.pc = "tc2" -> TeamChangeBind(g, m, w, h)
    [] h.pc = "tc3" -> TeamChangeJoined(g, m, w, h)
    [] h.pc = "tc4" -> TeamChangeWords(g, m, w, h)

\* The token sets after the step of handleTeamChanged that took h to r.h: the
\* step that removes and adds the player moves the connection's token with it.
TeamChangeTokens(tk, w, h, r) ==
  IF h.pc = "tc1"
    THEN LET desired == IF h.team # NoTeam THEN h.team ELSE h.existing
             leaves == w[h.c].teamId # NoTeam /\ w[h.c].teamId # desired
             tk1 == IF leaves THEN DbRemoveToken(tk, w[h.c].teamId, w[h.c].token) ELSE tk
         IN DbAddToken(tk1, r.h.next, w[h.c].token)
    ELSE tk

Joined(ev) == Cardinality({i \in 1 .. Len(ev) : ev[i].type = "playerJoined"})

\* The changeTeam messages of a connection: the team asked for, the team the
\* connection held when the message arrived, whether another changeTeam of the
\* connection was then being handled, the 'playerJoined' broadcasts its handler
\* made and whether the handler has ended.
LogEntry(h, w) ==
  [id |-> h.id, team |-> h.team, before |-> w[h.c].teamId,
   alone |-> \A x \in teamflight : x.c # h.c, joined |-> 0, ended |-> FALSE]

LogStep(log, r) ==
  [i \in 1 .. Len(log) |->
     IF log[i].id = r.h.id
       THEN [log[i] EXCEPT !.joined = @ + Joined(r.ev), !.ended = r.h.pc = "done"]
       ELSE log[i]]

\* ws.on('message') -> handleRequest 'changeTeam': handleTeamChanged runs to its
\* first await.
ChangeTeamMsg ==
  \E c \in Conns, t \in Teams :
    /\ nmsgs < MaxMsgs
    /\ Busy < MaxInflight
    /\ LET h0 == TeamHandler(nmsgs + 1, c, t)
           r == TeamStep(game, members, ws, h0)
       IN /\ members' = r.m
          /\ ws' = r.w
          /\ teamflight' = teamflight \cup {r.h}
          /\ out' = r.ev
          /\ tlog' = [tlog EXCEPT ![c] = Append(@, LogEntry(h0, ws))]
          /\ tokens' = TeamChangeTokens(tokens, ws, h0, r)
    /\ nmsgs' = nmsgs + 1
    /\ notes' = <<>>
    /\ UNCHANGED <<game, inflight, tasks, epoch, hist, leaving, fetched, connVars>>

\* A suspended handleTeamChanged resumes and runs to its next await or its end.
ContinueTeam ==
  \E h \in teamflight :
    LET r == TeamStep(game, members, ws, h)
    IN /\ members' = r.m
       /\ ws' = r.w
       /\ teamflight' = (teamflight \ {h}) \cup (IF r.h.pc = "done" THEN {} ELSE {r.h})
       /\ out' = r.ev
       /\ tlog' = [tlog EXCEPT ![h.c] = LogStep(@, r)]
       /\ tokens' = TeamChangeTokens(tokens, ws, h, r)
       /\ notes' = <<>>
       /\ UNCHANGED <<game, inflight, tasks, nmsgs, epoch, hist, leaving, fetched,
                      connVars>>

NextTeam ==
  \/ ChangeTeamMsg
  \/ ContinueTeam

\* The changeTeam messages of two connections, interleaving at their awaits.
SpecTeam == InitTurn /\ [][NextTeam]_vars

\* The last two changeTeam messages of connection c asked for the same team,
\* nothing else of c was being handled when the first arrived, and both
\* handlers have ended.
PairDone(c) ==
  LET k == Len(tlog[c])
  IN /\ k >= 2
     /\ tlog[c][k - 1].team = tlog[c][k].team
     /\ tlog[c][k - 1].alone
     /\ tlog[c][k - 1].ended /\ tlog[c][k].ended

PairJoined(c) == tlog[c][Len(tlog[c]) - 1].joined + tlog[c][Len(tlog[c])].joined

\* C10 as stated: two changeTeam messages in a row for the same team make
\* exactly one 'playerJoined' broadcast, however the two handlers interleave.
C10_ExactlyOneJoined == \A c \in Conns : PairDone(c) => PairJoined(c) = 1

\* C10 amended: they make exactly one 'playerJoined' broadcast when the
\* connection was not on that team before the first, and none when it was.
C10_OneJoinedUnlessOnTeam ==
  \A c \in Conns :
    PairDone(c) =>
      PairJoined(c) = IF tlog[c][Len(tlog[c]) - 1].before = tlog[c][Len(tlog[c])].team
                        THEN 0 ELSE 1

\* Both handlers of a pair were suspended together and one of them announced
\* the new team.
C10_Witness ==
  \E c \in Conns :
    /\ PairDone(c) /\ PairJoined(c) = 1
    /\ ~tlog[c][Len(tlog[c])].alone

(* ---------------------- app.post('/leave', ...) ------------------------ *)

\* A /leave request for a player with the token of its body, and the team the
\* store answered.
LeaveReq(p, token) == [p |-> p, token |-> token, pc |-> "start", team |-> NoTeam]

\* The token sets after the step of /leave that starts at l: the removal takes
\* the token of the request from the team's set.
LeaveTokens(tk, l) ==
  IF l.pc = "lv1" /\ l.team # NoTeam THEN DbRemoveToken(tk, l.team, l.token) ELSE tk

LR(m, w, l, ev, spawn) == [m |-> m, w |-> w, l |-> l, ev |-> ev, spawn |-> spawn]

\* const teamId = await db.getTeamIdForPlayerId(gameId, playerId)
LeaveLookup(m, w, l) ==
  LR(m, w, [l EXCEPT !.pc = "lv1", !.team = DbGetTeamIdForPlayerId(m, l.p)], <<>>, {})

\* if (!teamId) return res.sendStatus(204);
\* db.removePlayerFromTeam(gameId, playerId, teamId, token)
LeaveRemove(m, w, l) ==
  IF l.team = NoTeam
    THEN LR(m, w, [l EXCEPT !.pc = "done"], <<>>, {})
    ELSE LR(DbRemovePlayerFromTeam(m, l.p, l.team), w, [l EXCEPT !.pc = "lv2"], <<>>, {})

\* The clients of the game in the order the forEach visits them.
ConnOrder == <<"A", "B">>

\* What the forEach body sends for one client bound to the player: 'playerChanged'
\* and 'teamChanged' with no player and no team, the 'playerLeft' broadcast of
\* handlePlayerLeft with the fields the client still holds, and, after the
\* fields are cleared, the 'playerJoined' broadcast with the count alone.
LeaveEvents(w, c) ==
  <<[Ev("playerChanged", c) EXCEPT !.who = c],
    [Ev("teamChanged", c) EXCEPT !.who = c],
    PlayerEv("playerLeft", w, c),
    Ev("playerJoined", "all")>>

RECURSIVE LeaveEventsAll(_, _, _)
LeaveEventsAll(w, p, cs) ==
  IF cs = <<>> THEN <<>>
  ELSE (IF w[Head(cs)].playerId = p THEN LeaveEvents(w, Head(cs)) ELSE <<>>)
         \o LeaveEventsAll(w, p, Tail(cs))

\* client.playerName = client.token = client.playerId = client.teamId =
\* client.facebookId = client.facebookImage = undefined
Cleared == [teamId |-> NoTeam, playerId |-> NoPlayer, token |-> NoAnchor, facebookId |-> NoAnchor]

\* .then(() => { sockets[gameId].forEach(...) }): for every client bound to the
\* player the events above, a sendWholeGameState(client) and the cleared fields.
\* The removal handlePlayerLeft defers reads the fields after they are cleared.
LeaveClear(m, w, l) ==
  LET hit == {c \in Conns : w[c].playerId = l.p}
      w2 == [c \in Conns |-> IF c \in hit THEN Cleared ELSE w[c]]
      defer == {c \in hit : w[c].teamId # NoTeam /\ w[c].facebookId = NoAnchor
                               /\ w[c].token = NoAnchor}
      m2 == IF defer = {} THEN m ELSE DbRemovePlayerFromTeam(m, NoPlayer, NoTeam)
  IN LR(m2, w2, [l EXCEPT !.pc = "done"], LeaveEventsAll(w, l.p, ConnOrder), hit)

LeaveStep(m, w, l) ==
  CASE l.pc = "start" -> LeaveLookup(m, w, l)
    [] l.pc = "lv1" -> LeaveRemove(m, w, l)
    [] l.pc = "lv2" -> LeaveClear(m, w, l)

(* ------------- the word views sent to the connections ------------------ *)

\* A game in which team one gave a clue and found an agent: the store after
\* giveClue(A, "robot", 2) and guess(A, "w1") on a new game.
Opened(k, w) ==
  Serial(NewGame(k), w,
         <<Handler(1, "giveClue", "A", "robot", 2, 0), Handler(2, "guess", "A", "w1", 0, 0)>>)

InitWords ==
  /\ ws = [c \in Conns |->
             IF c = "A"
               THEN [teamId |-> 1, playerId |-> 1, token |-> "tokA", facebookId |-> NoAnchor]
               ELSE [teamId |-> 2, playerId |-> 2, token |-> NoAnchor, facebookId |-> NoAnchor]]
  /\ \E k \in Tables : game \in {NewGame(k), Opened(k, ws)}
  /\ members = [t \in Teams |-> {p \in Players : p = t}]
  /\ inflight = {}
  /\ tasks = {}
  /\ teamflight = {}
  /\ leaving = {}
  /\ nmsgs = 0
  /\ out = <<>>
  /\ epoch = [base |-> game, batch |-> <<>>]
  /\ hist = NoHist
  /\ InitRest
  /\ tlog = [c \in Conns |-> <<>>]

\* handleRequest 'words': sendWholeGameState(ws)
WordsMsg ==
  \E c \in Conns :
    /\ nmsgs < MaxWordsMsgs
    /\ tasks' = tasks \cup {SendState(c)}
    /\ out' = <<>>
    /\ nmsgs' = nmsgs + 1
    /\ notes' = <<>>
    /\ UNCHANGED <<game, ws, inflight, epoch, hist, teamVars, tokens, fetched, connVars>>

\* handleRequest 'startNewGame': handleStartNewGame(ws)
StartNewGameMsg ==
  /\ nmsgs < MaxWordsMsgs
  /\ \E c \in Conns, k \in Tables : Start(Handler(nmsgs + 1, "startNewGame", c, NoWord, 0, k))

\* A suspended sendWholeGameState resumes.
ContinueSendState ==
  \E t \in tasks :
    LET r == SendStateStep(game, ws, t)
    IN /\ tasks' = (tasks \ {t}) \cup (IF r.t.pc = "done" THEN {} ELSE {r.t})
       /\ out' = r.ev
       /\ notes' = <<>>
       /\ UNCHANGED <<game, ws, inflight, nmsgs, epoch, hist, teamVars, tokens, fetched, connVars>>

\* A /leave request arrives and runs to its first await.
LeaveMsg ==
  \E p \in Players :
    /\ nmsgs < MaxWordsMsgs
    /\ Busy < MaxInflight
    /\ \E token \in {NoAnchor} \cup {ws[c].token : c \in {x \in Conns : ws[x].playerId = p}} :
       LET r == LeaveStep(members, ws, LeaveReq(p, token))
       IN /\ leaving' = leaving \cup {r.l}
          /\ members' = r.m
          /\ ws' = r.w
          /\ out' = r.ev
    /\ nmsgs' = nmsgs + 1
    /\ notes' = <<>>
    /\ UNCHANGED <<game, inflight, tasks, epoch, hist, teamflight, tlog, tokens, fetched, connVars>>

\* A suspended /leave request resumes.
ContinueLeave ==
  \E l \in leaving :
    LET r == LeaveStep(members, ws, l)
    IN /\ leaving' = (leaving \ {l}) \cup (IF r.l.pc = "done" THEN {} ELSE {r.l})
       /\ members' = r.m
       /\ ws' = r.w
       /\ out' = r.ev
       /\ tasks' = tasks \cup {SendState(c) : c \in r.spawn}
       /\ tokens' = LeaveTokens(tokens, l)
       /\ notes' = <<>>
       /\ UNCHANGED <<game, inflight, nmsgs, epoch, hist, teamflight, tlog, fetched,
                      connVars>>

NextWords ==
  \/ WordsMsg
  \/ (nmsgs < MaxWordsMsgs /\ ChangeTeamMsg)
  \/ StartNewGameMsg
  \/ LeaveMsg
  \/ Continue
  \/ ContinueTeam
  \/ ContinueSendState
  \/ ContinueLeave

\* Everything that sends a 'words' payload, interleaving at the awaits.
SpecWords == InitWords /\ [][NextWords]_vars

\* The roles a payload shows are roles for team t only.
ShowsOnly(view, t) == \A w \in Words, u \in Teams : view[w].role[u] # "hidden" => u = t

\* C9: a 'words' payload sent to a connection shows roles and reveal flags of
\* the team the connection is bound to, and of no team when it is bound to none.
C9_OwnTeamOnly ==
  \A i \in 1 .. Len(out) :
    out[i].type = "words" => ShowsOnly(out[i].view, ws[out[i].to].teamId)

Resumed(h, pc) == \E h2 \in inflight' : h2.id = h.id /\ h2.pc = pc

\* The handler h ended in this step.
Ended(h) == \A h2 \in inflight' : h2.id # h.id

TurnPart(g) == <<g.turn, g.turnsLeft>>

\* C1: two state-mutating messages handled concurrently leave the turn record
\* and turnsLeft as handling them one after the other, in one of the two
\* orders, would.
C1_PairSerializable ==
  (Quiescent /\ Len(epoch.batch) = 2) =>
     TurnPart(game) \in
       {TurnPart(Serial(epoch.base, ws, epoch.batch)),
        TurnPart(Serial(epoch.base, ws, <<epoch.batch[2], epoch.batch[1]>>))}

\* C2: after k endTurn messages and no other message, in any interleaving, the
\* turn is Idle and turnsLeft is exactly k lower than before.
C2_EndTurnsCount ==
  (Quiescent /\ \A i \in 1 .. Len(epoch.batch) : epoch.batch[i].type = "endTurn") =>
     /\ game.turnsLeft = epoch.base.turnsLeft - Len(epoch.batch)
     /\ (epoch.batch # <<>> => IsIdle(game.turn))

\* C3: giveClue(team, word, number) acting on an Idle turn stores
\* ClueGiven(team, word, number) with guessesLeft = number + 1.
C3_GiveClueBudget ==
  [][\A h \in inflight :
       (h.type = "giveClue" /\ h.pc = "gc1" /\ Resumed(h, "gc2") /\ IsIdle(game.turn)) =>
          game'.turn = [clueGiverTeamId |-> ws[h.c].teamId, clueWord |-> h.word,
                        clueNumber |-> h.number, guessesLeft |-> h.number + 1]]_vars

\* C4: giveClue by a connection of team T while a clue of the other team is
\* active leaves the stored turn record unchanged.
C4_OtherTeamClueKept ==
  [][\A h \in inflight :
       (h.type = "giveClue" /\ h.pc = "gc1" /\ Resumed(h, "gc2")
          /\ ~IsIdle(game.turn) /\ game.turn.clueGiverTeamId # ws[h.c].teamId) =>
          game'.turn = game.turn]_vars

InitUnbound ==
  /\ \E k \in Tables : game = NewGame(k)
  /\ ws = [c \in Conns |->
             IF c = "A"
               THEN [teamId |-> 1, playerId |-> 1, token |-> "tokA", facebookId |-> NoAnchor]
               ELSE [teamId |-> NoTeam, playerId |-> NoPlayer, token |-> NoAnchor,
                     facebookId |-> NoAnchor]]
  /\ members = [t \in Teams |-> {p \in Players : p = 1 /\ t = 1}]
  /\ teamflight = {}
  /\ leaving = {}
  /\ tlog = [c \in Conns |-> <<>>]
  /\ inflight = {}
  /\ tasks = {}
  /\ nmsgs = 0
  /\ out = <<>>
  /\ epoch = [base |-> game, batch |-> <<>>]
  /\ hist = NoHist
  /\ InitRest

\* The clue, guess and end-of-turn handlers with one connection unbound.
SpecUnbound == InitUnbound /\ [][Next]_vars

Unbound(c) == c \in Conns /\ (ws[c].teamId = NoTeam \/ ws[c].playerId = NoPlayer)

\* C17: no step of the handler of a giveClue or guess message from a connection
\* with no player or no team changes the stored game or sends an event.
C17_UnboundNoOp ==
  [][\A h \in (inflight \cup inflight') :
       (h.type \in {"giveClue", "guess"} /\ Unbound(h.c)
          /\ (h \notin inflight \/ h \notin inflight')) =>
          (game' = game /\ out' = <<>>)]_vars

(* --------------- messages handled one after the other ------------------ *)

\* The guesses that followed the last clue, after the message h0 took the
\* store from g to g2: a clue opens the record; a guess by the clue's team of a
\* word that is not an agent for it extends it; any other message closes it.
HistAfter(h0, g, g2) ==
  IF h0.type = "giveClue"
    THEN [valid |-> TRUE, team |-> ws[h0.c].teamId, n |-> h0.number,
          turnsAtClue |-> g2.turnsLeft, guesses |-> 0, endedAt |-> 0,
          firstFresh |-> FALSE]
  ELSE IF /\ h0.type = "guess" /\ hist.valid /\ ws[h0.c].teamId = hist.team
          /\ RoleOf(g.table, h0.word, hist.team) # "agent"
    THEN [hist EXCEPT
            !.guesses = @ + 1,
            !.endedAt = IF @ = 0 /\ ~IsIdle(g.turn) /\ IsIdle(g2.turn)
                          THEN hist.guesses + 1 ELSE @,
            !.firstFresh = IF hist.guesses = 0
                             THEN ~g.revealed[h0.word][hist.team] ELSE @]
  ELSE NoHist

\* A message arrives at an idle server and its handler runs to its end before
\* the next message arrives. The sendWholeGameState calls a handler starts
\* only read the store; their events are not in out.
Handle(h0) ==
  /\ nmsgs < MaxSerialMsgs
  /\ game' = RunToEnd(game, ws, h0)
  /\ out' = EventsToEnd(game, ws, h0)
  /\ nmsgs' = nmsgs + 1
  /\ hist' = HistAfter(h0, game, game')
  /\ notes' = NotesToEnd(game, ws, tokens, h0)
  /\ UNCHANGED <<ws, inflight, tasks, epoch, teamVars, tokens, fetched, connVars>>

SerialGiveClue ==
  \E c \in Conns, cw \in ClueWords, n \in ClueNumbers :
    Handle(Handler(nmsgs + 1, "giveClue", c, cw, n, 0))

SerialGuess ==
  \E c \in Conns, word \in Words : Handle(Handler(nmsgs + 1, "guess", c, word, 0, 0))

SerialEndTurn == Handle(Handler(nmsgs + 1, "endTurn", NoConn, NoWord, 0, 0))

SerialStartNewGame ==
  \E c \in Conns, k \in Tables :
    Handle(Handler(nmsgs + 1, "startNewGame", c, NoWord, 0, k))

NextSerial ==
  \/ SerialGiveClue
  \/ SerialGuess
  \/ SerialEndTurn
  \/ SerialStartNewGame

\* The four state-mutating messages, each handled before the next arrives.
SpecSerial == InitTurn /\ [][NextSerial]_vars

C18_NotifiesOtherTeam ==
  \A i \in 1 .. Len(notes) :
    ws[notes[i].by].teamId \in Teams =>
      /\ notes[i].team = OtherTeam(ws[notes[i].by].teamId)
      /\ notes[i].tokens = tokens[OtherTeam(ws[notes[i].by].teamId)]

(* ------------------ the notification step failing ---------------------- *)

\* The token lookup a handler awaits rejects, or iosNotificationService.send
\* throws in its continuation: the async handler ends there, nothing after the
\* notification step runs.
NotifyFails ==
  \E h \in inflight :
    /\ \/ h.pc \in {"gc4", "mg5", "sn2"}
       \/ h.pc \in NotifyPcs /\ \E f \in fetched : f.id = h.id /\ f.tokens # {}
    /\ inflight' = inflight \ {h}
    /\ fetched' = {f \in fetched : f.id # h.id}
    /\ out' = <<>>
    /\ notes' = <<>>
    /\ UNCHANGED <<game, ws, tasks, nmsgs, epoch, hist, teamVars, tokens, connVars>>

NextNotify ==
  \/ GiveClueMsg
  \/ GuessMsg
  \/ EndTurnMsg
  \/ Continue
  \/ NotifyFails

\* The clue, guess and end-of-turn handlers with a notification step that may fail.
SpecNotify == InitTurn /\ [][NextNotify]_vars

\* The handler h takes its last step.
Ends(h) == h \in inflight /\ \A h2 \in inflight' : h2.id # h.id

HasEvent(ev, type) == \E i \in 1 .. Len(ev) : ev[i].type = type

\* C19: a giveClue handler whose db.setTurn completed does not end without
\* broadcasting 'clueGiven', and a guess handler whose guess changed turnsLeft
\* does not end without broadcasting 'turns', whether or not the notification
\* step fails.
C19_BroadcastDespiteFailure ==
  [][\A h \in inflight :
       /\ (h.type = "giveClue" /\ h.pc \in {"gc2", "gc3", "gc4"} /\ Ends(h)) =>
             HasEvent(out', "clueGiven")
       /\ (h.type = "guess" /\ h.pc \in {"mg4", "mg5", "mg6"} /\ h.guess.hit
             /\ h.tl # h.guess.turnsLeft /\ Ends(h)) =>
             HasEvent(out', "turns")]_vars

(* -------- the connection registry and the session reconciler ----------- *)

\* db.setPlayer(playerName, facebookId, facebookUrl, token): the player the
\* facebookId or else the token is stored for, or a new player; the anchors
\* supplied then lead to that player.
DbSetPlayer(an, ids, pl) ==
  LET byFb == IF pl.facebookId # NoAnchor THEN an[pl.facebookId] ELSE NoPlayer
      byTok == IF pl.token # NoAnchor THEN an[pl.token] ELSE NoPlayer
      p == IF byFb # NoPlayer THEN byFb ELSE IF byTok # NoPlayer THEN byTok ELSE ids + 1
  IN [player |-> p,
      ids |-> IF p = ids + 1 THEN ids + 1 ELSE ids,
      an |-> [a \in DOMAIN an |->
                IF a \in {pl.facebookId, pl.token} THEN p ELSE an[a]]]

\* The identity fields of a payload: token, facebookId, playerName, each
\* supplied or not.
Payload(token, facebookId, name) == [token |-> token, facebookId |-> facebookId, name |-> name]

\* What the handlers of a message read and write besides the game record.
ConnState(w, n, m, tk, an, ids, so) ==
  [ws |-> w, names |-> n, members |-> m, tokens |-> tk, anchors |-> an, playerIds |-> ids,
   sockets |-> so]

\* An inbound message on its way through handleInitialRequest and
\* handleRequest: its type, the team a changeTeam asks for, its payload, the
\* await it is suspended at, whether it is still in the implicit player change
\* (phase), the locals of handlePlayerChanged, the handleTeamChanged call it is
\* in (th), the number of handlePlayerChanged calls made for it, and history:
\* the 'playerLeft' and 'playerJoined' broadcast by its handlePlayerChanged.
ConnHandler(id, c, type, team, pl) ==
  [id |-> id, c |-> c, type |-> type, team |-> team, pl |-> pl, pc |-> "start",
   phase |-> "request", prev |-> NoPlayer, player |-> NoPlayer, existing |-> NoTeam,
   th |-> TeamHandler(id, c, NoTeam), changes |-> 0, implicit |-> FALSE, log |-> <<>>]

CR(s, h, ev) == [s |-> s, h |-> h, ev |-> ev]

\* The connections of the live set, open or not.
AllIn(so, sk) == so.set

\* The connections of the live set that are open.
OpenIn(so, sk) == {x \in so.set : sk[x].state = "open"}

\* The roster replayed to connection c: one 'playerJoined' sent to c for each
\* open client of the set, in the order of the forEach.
RECURSIVE Replay(_, _, _)
Replay(w, c, cs) ==
  IF cs = <<>> THEN <<>>
  ELSE <<[Ev("playerJoined", c) EXCEPT !.who = Head(cs), !.team = w[Head(cs)].teamId,
                                       !.player = w[Head(cs)].playerId]>>
         \o Replay(w, c, Tail(cs))

\* handleInitialRequest, the promise it builds: a game with no set of sockets
\* gets one holding ws, and getOrCreateGame is awaited; a connection not in the
\* set is sent the roster and added; a connection in the set goes on.
Register(s, sk, h) ==
  IF ~s.sockets.exists
    THEN CR([s EXCEPT !.sockets = [exists |-> TRUE, set |-> {h.c}]], Next_(h, "init"), <<>>)
  ELSE IF h.c \notin s.sockets.set
    THEN CR([s EXCEPT !.sockets.set = @ \cup {h.c}], h,
            Replay(s.ws, h.c, SelectSeq(ConnOrder, LAMBDA x : x \in OpenIn(s.sockets, sk))))
  ELSE CR(s, h, <<>>)

\* isImplicitPlayerChange: type !== 'changePlayer' && (hasNewToken ||
\* hasNewFacebookId || hasNewPlayerName), a field being new when it is supplied
\* and differs from what the connection holds.
IsImplicitPlayerChange(s, h) ==
  /\ h.type # "changePlayer"
  /\ \/ h.pl.token # NoAnchor /\ h.pl.token # s.ws[h.c].token
     \/ h.pl.facebookId # NoAnchor /\ h.pl.facebookId # s.ws[h.c].facebookId
     \/ h.pl.name # NoName /\ h.pl.name # s.names[h.c]

\* handlePlayerChanged up to its first await: previousPlayerId = ws.playerId;
\* playerId = await db.setPlayer(playerName, facebookId, facebookUrl, token)
PlayerChangedStart(s, h) ==
  LET r == DbSetPlayer(s.anchors, s.playerIds, h.pl)
  IN CR([s EXCEPT !.anchors = r.an, !.playerIds = r.ids],
        [Next_(h, "pc1") EXCEPT !.prev = s.ws[h.c].playerId, !.player = r.player,
                                !.changes = @ + 1],
        <<>>)

\* handleTeamChanged(ws, team) up to its first await.
TeamChangedStart(g, s, h, team) ==
  LET r == TeamStep(g, s.members, s.ws, TeamHandler(h.id, h.c, team))
  IN CR([s EXCEPT !.members = r.m, !.ws = r.w], [Next_(h, "team") EXCEPT !.th = r.h], r.ev)

\* handleRequest: the switch on the type, changePlayer and changeTeam.
HandleRequest(g, s, h, ev) ==
  LET h1 == [h EXCEPT !.phase = "request"]
      r == IF h.type = "changePlayer" THEN PlayerChangedStart(s, h1)
           ELSE TeamChangedStart(g, s, h1, h.team)
  IN CR(r.s, r.h, ev \o r.ev)

\* The promise of handleInitialRequest or of handleRequest settles: after the
\* first, .then(() => handleRequest(ws, parsedData)) runs; after the second the
\* message is done.
After(g, s, h, ev) ==
  IF h.phase = "implicit" THEN HandleRequest(g, s, h, ev) ELSE CR(s, Done(h), ev)

\* A reconciler that does not look at the type of the message.
DecideAnyType(g, s, h, ev) ==
  IF IsImplicitPlayerChange(s, [h EXCEPT !.type = "none"])
    THEN LET r == PlayerChangedStart(s, [h EXCEPT !.phase = "implicit", !.implicit = TRUE])
         IN CR(r.s, r.h, ev)
    ELSE HandleRequest(g, s, h, ev)

\* The .then of handleInitialRequest: an implicit player change is handled
\* before handleRequest, anything else goes to handleRequest.
Decide(g, s, h, ev) ==
  IF IsImplicitPlayerChange(s, h)
    THEN LET r == PlayerChangedStart(s, [h EXCEPT !.phase = "implicit", !.implicit = TRUE])
         IN CR(r.s, r.h, ev)
    ELSE HandleRequest(g, s, h, ev)

\* handlePlayerLeft(ws): 'playerLeft' to the set when it has members.
PlayerLeftEvents(s, c) ==
  IF s.sockets.exists /\ s.sockets.set # {} THEN <<PlayerEv("playerLeft", s.ws, c)>> ELSE <<>>

\* handlePlayerLeft(ws): whether db.removePlayerFromTeam is deferred:
\* ws.teamId && !ws.facebookId && !ws.token
NoDurableAnchor(w, c) ==
  w[c].teamId # NoTeam /\ w[c].facebookId = NoAnchor /\ w[c].token = NoAnchor

\* handlePlayerChanged for another player than the socket's:
\* handlePlayerLeft(ws) for a connection that had a player, the fields of the
\* socket are set, 'playerChanged' is sent, db.getTeamIdForPlayerId is called
\* for the new player, and the db.removePlayerFromTeam deferred by
\* handlePlayerLeft then runs with the fields the socket holds by then.
PlayerChangedRebind(g, s, h) ==
  LET c == h.c
      left == IF h.prev # NoPlayer THEN PlayerLeftEvents(s, c) ELSE <<>>
      removes == h.prev # NoPlayer /\ NoDurableAnchor(s.ws, c)
      w1 == [s.ws EXCEPT ![c].playerId = h.player, ![c].facebookId = h.pl.facebookId,
                         ![c].token = h.pl.token]
      m1 == IF removes THEN DbRemovePlayerFromTeam(s.members, w1[c].playerId, w1[c].teamId)
            ELSE s.members
  IN CR([s EXCEPT !.ws = w1, !.names[c] = h.pl.name, !.members = m1],
        [Next_(h, "pc2") EXCEPT !.existing = DbGetTeamIdForPlayerId(s.members, h.player)],
        left \o <<[Ev("playerChanged", c) EXCEPT !.who = c]>>)

\* A handlePlayerChanged without the test of playerId against previousPlayerId.
PlayerChangedNoTest(g, s, h) == PlayerChangedRebind(g, s, h)

\* handlePlayerChanged after db.setPlayer:
\* if (playerId === previousPlayerId) return Promise.resolve()
PlayerChangedResolved(g, s, h) ==
  IF h.player = h.prev THEN After(g, s, h, <<>>) ELSE PlayerChangedRebind(g, s, h)

\* handlePlayerChanged after db.getTeamIdForPlayerId: no team stored or another
\* one than the socket's: handleTeamChanged(ws, teamIdForPlayerId); else
\* 'playerJoined' is broadcast.
PlayerChangedTeam(g, s, h) ==
  IF h.existing = NoTeam \/ s.ws[h.c].teamId # h.existing
    THEN TeamChangedStart(g, s, h, h.existing)
    ELSE After(g, s, h, <<PlayerEv("playerJoined", s.ws, h.c)>>)

\* handleTeamChanged goes on to its next await or its end.
TeamChangedStep(g, s, h) ==
  LET r == TeamStep(g, s.members, s.ws, h.th)
      s1 == [s EXCEPT !.members = r.m, !.ws = r.w,
                      !.tokens = TeamChangeTokens(s.tokens, s.ws, h.th, r)]
  IN IF r.h.pc = "done" THEN After(g, s1, [h EXCEPT !.th = r.h], r.ev)
     ELSE CR(s1, [h EXCEPT !.th = r.h], r.ev)

\* One step of the handling of a message, from an await to the next.
ConnStep(g, s, h) ==
  CASE h.pc = "init" -> Decide(g, s, h, <<>>)
    [] h.pc = "pc1" -> PlayerChangedResolved(g, s, h)
    [] h.pc = "pc2" -> PlayerChangedTeam(g, s, h)
    [] h.pc = "team" -> TeamChangedStep(g, s, h)

\* ws.on('message') with a text that parses: handleInitialRequest, and what
\* follows it without an await in between.
Arrive(g, s, sk, h) ==
  LET r == Register(s, sk, h)
  IN IF r.h.pc = "init" THEN r ELSE Decide(g, r.s, r.h, r.ev)

\* ws.on('close'): a socket of a game leaves the set, handlePlayerLeft(ws) is
\* called and the fields of the socket are cleared; the
\* db.removePlayerFromTeam that handlePlayerLeft defers runs after that, with
\* the fields the socket holds by then.
CloseHandler(s, sk, c) ==
  IF sk[c].gameId /\ s.sockets.exists
    THEN LET s1 == [s EXCEPT !.sockets.set = @ \ {c}]
             w1 == [s.ws EXCEPT ![c] = Cleared]
             m1 == IF NoDurableAnchor(s.ws, c)
                     THEN DbRemovePlayerFromTeam(s.members, w1[c].playerId, w1[c].teamId)
                     ELSE s.members
         IN CR([s1 EXCEPT !.ws = w1, !.names[c] = NoName, !.members = m1],
               [c |-> c], PlayerLeftEvents(s1, c))
    ELSE CR(s, [c |-> c], <<>>)

(* ---------------------- the connections of a game ----------------------- *)

\* The types of message the connections send here, and their identity fields.
ConnTypes == {"changePlayer", "changeTeam"}
ConnPayloads ==
  {Payload(NoAnchor, NoAnchor, NoName), Payload("tokA", NoAnchor, "Grace"),
   Payload("tokB", NoAnchor, NoName), Payload(NoAnchor, NoAnchor, "Grace"),
   Payload(NoAnchor, "fbA", NoName)}

\* The store of InitTurn with the process serving both connections, serving A
\* only, or just started.
InitConn ==
  /\ game = NewGame(1)
  /\ \E reg \in {Conns, {"A"}, {}} :
       /\ ws = [c \in Conns |->
                  IF c \notin reg THEN Cleared
                  ELSE IF c = "A"
                    THEN [teamId |-> 1, playerId |-> 1, token |-> "tokA", facebookId |-> NoAnchor]
                    ELSE [teamId |-> 2, playerId |-> 2, token |-> NoAnchor, facebookId |-> NoAnchor]]
       /\ sockets = [exists |-> reg # {}, set |-> reg]
       /\ sock = [c \in Conns |->
                    [state |-> IF c \in reg THEN "open" ELSE "none", isAlive |-> TRUE,
                     gameId |-> c \in reg, ping |-> FALSE, bad |-> 0]]
       /\ names = [c \in Conns |->
                     IF c \notin reg THEN NoName ELSE IF c = "A" THEN "Ada" ELSE "Grace"]
  /\ members = [t \in Teams |-> {p \in Players : p = t}]
  /\ tokens = [t \in Teams |-> IF t = 1 THEN {"tokA"} ELSE {}]
  /\ anchors = [a \in Tokens \cup FacebookIds |-> IF a = "tokA" THEN 1 ELSE NoPlayer]
  /\ playerIds = 2
  /\ up = TRUE
  /\ pflight = {}
  /\ games = NoGames
  /\ store = NoStore
  /\ teamflight = {}
  /\ leaving = {}
  /\ tlog = [c \in Conns |-> <<>>]
  /\ inflight = {}
  /\ tasks = {}
  /\ nmsgs = 0
  /\ out = <<>>
  /\ epoch = [base |-> game, batch |-> <<>>]
  /\ hist = NoHist
  /\ notes = <<>>
  /\ fetched = {}

\* What the handlers of a message read and write, now.
Now == ConnState(ws, names, members, tokens, anchors, playerIds, sockets)

\* The step took the state to s.
Becomes(s) ==
  /\ ws' = s.ws
  /\ names' = s.names
  /\ members' = s.members
  /\ tokens' = s.tokens
  /\ anchors' = s.anchors
  /\ playerIds' = s.playerIds
  /\ sockets' = s.sockets

\* What the connection actions leave alone.
turnVars ==
  <<game, inflight, tasks, epoch, hist, teamflight, leaving, tlog, notes, fetched, games,
    store>>

\* wss.on('connection')
Connect ==
  \E c \in Conns :
    /\ up
    /\ sock[c].state = "none"
    /\ sock' = [sock EXCEPT ![c] = [state |-> "open", isAlive |-> TRUE, gameId |-> FALSE,
                                    ping |-> FALSE, bad |-> 0]]
    /\ out' = <<>>
    /\ UNCHANGED <<turnVars, ws, names, members, tokens, anchors, playerIds, sockets, up,
                   pflight, nmsgs>>

\* ws.on('message') with a text that parses.
ConnMsgOf(c, type, team, pl) ==
  /\ up
  /\ sock[c].state = "open"
  /\ LET r == Arrive(game, Now, sock, ConnHandler(nmsgs + 1, c, type, team, pl))
     IN /\ Becomes(r.s)
        /\ pflight' = pflight \cup {r.h}
        /\ out' = r.ev
  /\ sock' = [sock EXCEPT ![c].gameId = TRUE]
  /\ nmsgs' = nmsgs + 1
  /\ UNCHANGED <<turnVars, up>>

\* A changePlayer or a changeTeam message of a connection.
ConnMsg ==
  /\ nmsgs < MaxConnMsgs
  /\ Cardinality(pflight) < MaxConnInflight
  /\ \/ \E c \in Conns, pl \in ConnPayloads : ConnMsgOf(c, "changePlayer", NoTeam, pl)
     \/ \E c \in Conns, t \in Teams, pl \in ConnPayloads : ConnMsgOf(c, "changeTeam", t, pl)

\* Handler h is in handlePlayerChanged or in the handleTeamChanged it called.
InChange(h) ==
  \/ h.pc \in {"pc1", "pc2"}
  \/ h.pc = "team" /\ (h.phase = "implicit" \/ h.type = "changePlayer")

\* The 'playerLeft' and 'playerJoined' broadcasts among the events ev.
Roster(ev) == SelectSeq(ev, LAMBDA e : e.to = "all" /\ e.type \in {"playerLeft", "playerJoined"})

\* The handler after the step of h that yielded r, with its history.
Logged(h, r) == IF InChange(h) THEN [r.h EXCEPT !.log = @ \o Roster(r.ev)] ELSE r.h

\* The handling of a message resumes and runs to its next await or its end.
ConnContinue ==
  \E h \in pflight :
    /\ up
    /\ LET r == ConnStep(game, Now, h)
       IN /\ Becomes(r.s)
          /\ pflight' = (pflight \ {h}) \cup (IF r.h.pc = "done" THEN {} ELSE {Logged(h, r)})
          /\ out' = r.ev
    /\ UNCHANGED <<turnVars, sock, up, nmsgs>>

\* ws.on('message') with a text that does not parse: JSON.parse throws in the
\* listener, nothing catches it and the process ends.
Malformed ==
  \E c \in Conns :
    /\ up
    /\ sock[c].state = "open"
    /\ up' = FALSE
    /\ sock' = [sock EXCEPT ![c].bad = @ + 1]
    /\ out' = <<>>
    /\ UNCHANGED <<turnVars, ws, names, members, tokens, anchors, playerIds, sockets,
                   pflight, nmsgs>>

\* The 'close' event of a socket none of whose messages is being handled; the
\* socket is from then on closed, or terminated for one the server closed.
Closes(c, how) ==
  /\ up
  /\ \A h \in pflight : h.c # c
  /\ LET r == CloseHandler(Now, sock, c)
     IN /\ Becomes(r.s)
        /\ out' = r.ev
  /\ sock' = [sock EXCEPT ![c].state = how, ![c].gameId = FALSE]
  /\ UNCHANGED <<turnVars, up, pflight, nmsgs>>

\* The client closes the connection.
ClientClose == \E c \in Conns : sock[c].state = "open" /\ Closes(c, "closed")

\* The 'close' event of a socket the server terminated.
TerminatedClose == \E c \in Conns : sock[c].state = "closing" /\ Closes(c, "terminated")

\* if (ws.isAlive === false) { ws.terminate(); return; }
Terminates(sk, c) == sk[c].isAlive = FALSE

\* The interval: each client that is not alive is terminated, each other one
\* is marked not alive and pinged.
Tick ==
  /\ up
  /\ sock' = [c \in Conns |->
                IF sock[c].state \notin {"open", "closing"} THEN sock[c]
                ELSE IF Terminates(sock, c) THEN [sock[c] EXCEPT !.state = "closing"]
                ELSE [sock[c] EXCEPT !.isAlive = FALSE, !.ping = TRUE]]
  /\ out' = <<>>
  /\ UNCHANGED <<turnVars, ws, names, members, tokens, anchors, playerIds, sockets, up,
                 pflight, nmsgs>>

\* ws.on('pong'): the client answers a ping.
Pong ==
  \E c \in Conns :
    /\ up
    /\ sock[c].state = "open"
    /\ sock[c].ping
    /\ sock' = [sock EXCEPT ![c].isAlive = TRUE, ![c].ping = FALSE]
    /\ out' = <<>>
    /\ UNCHANGED <<turnVars, ws, names, members, tokens, anchors, playerIds, sockets, up,
                   pflight, nmsgs>>

NextConn ==
  \/ Connect
  \/ ConnMsg
  \/ ConnContinue
  \/ Malformed
  \/ ClientClose

\* The process serving a connection already.
InitServed == InitConn /\ sockets.exists

\* The connections of one game: their messages and their closing.
SpecConn == InitServed /\ [][NextConn]_vars

\* A message while the liveness check runs.
LiveMsg == nmsgs < MaxLiveMsgs /\ ConnMsg

NextLive ==
  \/ Connect
  \/ LiveMsg
  \/ ConnContinue
  \/ ClientClose
  \/ TerminatedClose
  \/ Tick
  \/ Pong

\* The connections of one game under the liveness check.
SpecLive == InitConn /\ [][NextLive]_vars

(* ------------------------ claims on the registry ------------------------ *)

\* Connection c, bound to a player on a team of the game, closes in this step.
ClosesBound(c) ==
  /\ sock[c].state \in {"open", "closing"}
  /\ sock'[c].state \in {"closed", "terminated"}
  /\ sock[c].gameId
  /\ ws[c].playerId # NoPlayer
  /\ ws[c].teamId # NoTeam

\* C11: when a connection bound to a player on a team closes, the store no
\* longer lists the player on the team if the connection holds neither a
\* facebookId nor a token, and the team sets are unchanged if it holds one.
C11_CloseMembership ==
  [][\A c \in Conns :
       ClosesBound(c) =>
         IF ws[c].facebookId = NoAnchor /\ ws[c].token = NoAnchor
           THEN ws[c].playerId \notin members'[ws[c].teamId]
           ELSE members' = members]_vars

\* The message accepted in this step is of connection c.
Accepts(c) == nmsgs' = nmsgs + 1 /\ \E h \in pflight' \ pflight : h.c = c /\ h.id = nmsgs'

\* The 'playerJoined' events of ev sent to connection c alone about connection x.
ReplayedTo(ev, c, x) ==
  Cardinality({i \in 1 .. Len(ev) :
                 ev[i].type = "playerJoined" /\ ev[i].to = c /\ ev[i].who = x})

\* C13: a message of a connection for a game whose set of sockets exists: a
\* connection not in the set is sent one 'playerJoined' for each connection
\* that is in the set and open, none for itself or any other, and is in the set
\* afterwards; a connection in the set is sent none.
C13_ReplayOnce ==
  [][\A c \in Conns :
       (Accepts(c) /\ sockets.exists) =>
         /\ c \in sockets'.set
         /\ \A x \in Conns :
              ReplayedTo(out', c, x) =
                IF c \notin sockets.set /\ x \in sockets.set /\ sock[x].state = "open"
                  THEN 1 ELSE 0]_vars

\* B has sent its first message and was sent the 'playerJoined' of A, and is
\* in the set.
C13_Witness ==
  /\ nmsgs = 1
  /\ \E h \in pflight : h.c = "B" /\ h.id = 1
  /\ ReplayedTo(out, "B", "A") = 1
  /\ sockets.set = Conns

\* Handler h2 has in this step gone through the .then of handleInitialRequest.
Decided(h2) ==
  /\ h2 \in pflight'
  /\ h2.pc # "init"
  /\ \/ h2.id = nmsgs + 1 /\ nmsgs' = nmsgs + 1
     \/ \E h \in pflight : h.id = h2.id /\ h.pc = "init"

\* A field of the message is supplied and is not what the connection holds.
SuppliesNew(h) ==
  \/ h.pl.name # NoName /\ h.pl.name # names[h.c]
  \/ h.pl.facebookId # NoAnchor /\ h.pl.facebookId # ws[h.c].facebookId
  \/ h.pl.token # NoAnchor /\ h.pl.token # ws[h.c].token

\* C14: a message is taken for an implicit player change exactly when its type
\* is not changePlayer and a name, facebookId or token it supplies differs from
\* what the connection holds; handlePlayerChanged is called at most once for a
\* message.
C14_ImplicitChange ==
  [][/\ \A h2 \in pflight' :
          Decided(h2) => (h2.implicit <=> (h2.type # "changePlayer" /\ SuppliesNew(h2)))
     /\ \A h3 \in pflight' : h3.changes <= 1]_vars

\* A changeTeam message that was taken for an implicit player change is, after
\* it, in its handleTeamChanged.
C14_Witness ==
  \E h \in pflight :
    /\ h.type = "changeTeam"
    /\ h.implicit
    /\ h.changes = 1
    /\ h.phase = "request"
    /\ h.pc = "team"

(* ------------------- messages handled at the same time ------------------ *)

\* A message while another may be in its handler.
RaceMsg ==
  /\ nmsgs < MaxConnMsgs
  /\ Cardinality(pflight) < MaxInflight
  /\ \/ \E c \in Conns, pl \in ConnPayloads : ConnMsgOf(c, "changePlayer", NoTeam, pl)
     \/ \E c \in Conns, t \in Teams, pl \in ConnPayloads : ConnMsgOf(c, "changeTeam", t, pl)

NextRace ==
  \/ RaceMsg
  \/ ConnContinue

\* The messages of two registered connections, interleaving at their awaits.
InitRace == InitConn /\ sockets.set = Conns

SpecRace == InitRace /\ [][NextRace]_vars

\* Handler h takes its step.
Steps(h) == h \in pflight /\ h \notin pflight'

\* None of 'playerLeft', 'playerJoined', 'playerChanged', 'teamChanged' is in ev.
NoIdentityEvent(ev) ==
  \A i \in 1 .. Len(ev) :
    ev[i].type \notin {"playerLeft", "playerJoined", "playerChanged", "teamChanged"}

C16_MalformedDropped ==
  [][\A c \in Conns :
       sock'[c].bad # sock[c].bad =>
         /\ sock'[c].state = "open"
         /\ <<game, members, tokens, ws, names, sockets, pflight>>'
              = <<game, members, tokens, ws, names, sockets, pflight>>
         /\ out' = <<>>
         /\ up']_vars

(* --------------------- claims on the liveness check --------------------- *)

\* The interval fires in this step.
Ticks ==
  \E c \in Conns :
    /\ sock[c].state = "open"
    /\ sock'[c].state = "closing" \/ (sock'[c].ping /\ ~sock[c].ping)

\* When the interval fires, the open connections terminated are those with a
\* ping unanswered; a terminated connection's 'close' does what the close of a
\* client does: the socket leaves the set of its game, 'playerLeft' is
\* broadcast to the sockets left, the fields of the socket are cleared and the
\* team sets are those the close handler leaves; no connection is terminated
\* without a ping unanswered.
ChecksAndCloses(c) ==
  /\ (Ticks /\ sock[c].state = "open") => (sock'[c].state = "closing" <=> sock[c].ping)
  /\ (sock[c].state = "open" /\ sock'[c].state = "closing") => sock[c].ping
  /\ (sock[c].state = "closing" /\ sock'[c].state # "closing") =>
       /\ sock'[c].state = "terminated"
       /\ c \notin sockets'.set
       /\ ws'[c] = Cleared
       /\ (sock[c].gameId /\ sockets'.set # {}) => HasEvent(out', "playerLeft")
       /\ out' = CloseHandler(Now, sock, c).ev
       /\ members' = CloseHandler(Now, sock, c).s.members

TerminatedAsClosed == [][\A c \in Conns : ChecksAndCloses(c)]_vars

\* C20: at each firing of the interval the open connections with a ping
\* unanswered, and no others, are terminated; a terminated connection leaves
\* the set of its game, 'playerLeft' is broadcast, and its player, when the
\* connection holds neither a facebookId nor a token, leaves its team in the
\* store, as after the close of a client.
C20_LivenessCheck ==
  [][\A c \in Conns :
       /\ ChecksAndCloses(c)
       /\ (ClosesBound(c) /\ sock'[c].state = "terminated"
             /\ ws[c].facebookId = NoAnchor /\ ws[c].token = NoAnchor)
            => ws[c].playerId \notin members'[ws[c].teamId]]_vars

(* ------------------------ the 'clueGiven' payload ------------------------ *)

\* C23: the 'clueGiven' broadcast of a giveClue handled with nothing in between
\* names the team, the number and the word of the turn record the giveClue
\* stored, the team being that of the connection that gave the clue.
C23_ClueGivenPayload ==
  \A i \in 1 .. Len(out) :
    out[i].type = "clueGiven" =>
      /\ out[i].team = game.turn.clueGiverTeamId
      /\ out[i].number = game.turn.clueNumber
      /\ out[i].word = game.turn.clueWord

(* ------------------- the removals a connection triggers ----------------- *)

\* The team sets after this step are those with the player connection c holds
\* removed from the team it holds.
RemovesBound(c) == members' = DbRemovePlayerFromTeam(members, ws[c].playerId, ws[c].teamId)

\* Handler h finds in this step another player than the one of its connection,
\* which is on a team with neither a facebookId nor a token.
ReplacesUnanchored(h) ==
  /\ Steps(h)
  /\ h.pc = "pc1"
  /\ h.player # h.prev
  /\ h.prev # NoPlayer
  /\ NoDurableAnchor(ws, h.c)

\* C27: the removal made when a connection with neither a facebookId nor a
\* token closes, or has its player replaced, takes from the store the player
\* and the team the connection held when the close or the change was handled.
C27_RemovalTargetsBound ==
  [][/\ \A c \in Conns : (ClosesBound(c) /\ NoDurableAnchor(ws, c)) => RemovesBound(c)
     /\ \A h \in pflight : ReplacesUnanchored(h) => RemovesBound(h.c)]_vars

(* ----------------- the events of a change of player -------------------- *)

\* Handler h, whose connection held a player and was given another, ends its
\* handlePlayerChanged in this step.
ChangeEnds(h) ==
  /\ Steps(h)
  /\ InChange(h)
  /\ h.pc \in {"pc2", "team"}
  /\ h.prev # NoPlayer
  /\ h.player # h.prev
  /\ \A h2 \in pflight' : h2.id = h.id => ~InChange(h2)

\* The broadcasts of the given type about player p in ev.
About(ev, type, p) == {i \in 1 .. Len(ev) : ev[i].type = type /\ ev[i].player = p}

\* C22: a connection holding player P that is given another player Q: the
\* step that binds Q broadcasts 'playerLeft' with P and P's team and no
\* 'playerJoined'; a team stored for Q that is not the connection's makes it a
\* handleTeamChanged to that team; and by the end of the change one
\* 'playerLeft' about P was broadcast, before every 'playerJoined' about Q,
\* and, unless Q had another team stored, one 'playerJoined' about Q.
C22_ChangeEvents ==
  [][\A h \in pflight :
       /\ (Steps(h) /\ h.pc = "pc1" /\ h.prev # NoPlayer /\ h.player # h.prev) =>
            Roster(out') = <<PlayerEv("playerLeft", ws, h.c)>>
       /\ (Steps(h) /\ h.pc = "pc2" /\ h.prev # NoPlayer /\ h.existing # NoTeam
             /\ h.existing # ws[h.c].teamId) =>
            \E h2 \in pflight' : h2.id = h.id /\ h2.pc = "team" /\ h2.th.team = h.existing
       /\ ChangeEnds(h) =>
            LET total == h.log \o Roster(out')
            IN /\ Cardinality(About(total, "playerLeft", h.prev)) = 1
               /\ \A i \in About(total, "playerLeft", h.prev),
                     j \in About(total, "playerJoined", h.player) : i < j
               /\ (h.existing = NoTeam \/ h.pc = "pc2") =>
                    Cardinality(About(total, "playerJoined", h.player)) = 1]_vars

(* --------------------------- one team a player -------------------------- *)

\* A changePlayer or a changeTeam message, each handled before the next.
SharedMsg ==
  /\ nmsgs < MaxSharedMsgs
  /\ pflight = {}
  /\ \/ \E c \in Conns, pl \in ConnPayloads : ConnMsgOf(c, "changePlayer", NoTeam, pl)
     \/ \E c \in Conns, t \in Teams, pl \in ConnPayloads : ConnMsgOf(c, "changeTeam", t, pl)

NextShared ==
  \/ SharedMsg
  \/ ConnContinue

\* Two registered connections whose messages are handled one after the other.
SpecShared == InitRace /\ [][NextShared]_vars

\* C26: no player is in the team sets of both teams.
C26_OneTeamAPlayer == members[1] \cap members[2] = {}

(* ------------------------ messages with no payload ---------------------- *)

\* The .then of handleInitialRequest: const { token, playerName, facebookId,
\* facebookImage } = payload throws for a message with no payload field; the
\* promise rejects and .then(() => handleRequest(ws, parsedData)) is not run.
ReachesHandleRequest(hasPayload) == hasPayload

\* The endTurn the client sends, { gameId, type: 'endTurn' }: the rejection is
\* handled by nothing, and the process goes on or ends with it.
EndTurnNoPayload ==
  /\ up
  /\ nmsgs < MaxMsgs
  /\ ~ReachesHandleRequest(FALSE)
  /\ nmsgs' = nmsgs + 1
  /\ \E ends \in BOOLEAN : up' = ~ends
  /\ out' = <<>>
  /\ notes' = <<>>
  /\ UNCHANGED <<game, ws, inflight, tasks, epoch, hist, teamVars, tokens, fetched, sockets,
                 sock, names, anchors, playerIds, pflight, games, store>>

\* An endTurn with a payload field.
EndTurnPayload == up /\ ReachesHandleRequest(TRUE) /\ EndTurnMsg

\* A guess, which the client sends with a payload.
GuessPayload == up /\ ReachesHandleRequest(TRUE) /\ GuessMsg

\* A handler resumes while the process runs.
ContinuePayload == up /\ Continue

NextPayload ==
  \/ EndTurnNoPayload
  \/ EndTurnPayload
  \/ GuessPayload
  \/ ContinuePayload

\* Guesses and endTurn messages, with a payload field and without.
SpecPayload == InitTurn /\ [][NextPayload]_vars

\* C25: every message accepted has its handler called: the handler is
\* suspended at its first await after the step, and the process is running.
C25_ReachesHandler ==
  [][nmsgs' = nmsgs + 1 => (up' /\ \E h \in inflight' \ inflight : h.id = nmsgs')]_vars

(* ------------------------ connections and game ids ---------------------- *)

\* handleInitialRequest for a message naming game g: if (!ws.gameId) ws.gameId
\* = gameId; a game with no set of sockets gets one holding ws, a socket not in
\* the set of the game is added to it.
GameRegister(gs, c, g) ==
  [gs EXCEPT !.bound[c] = IF @ = NoGame THEN g ELSE @,
             !.live[g] = [exists |-> TRUE, set |-> @.set \cup {c}],
             !.named = g]

\* handleRequest: endTurn(gameId) lowers turnsLeft of the game the message
\* names; handleStartNewGame(ws) stores a new game under ws.gameId.
GameHandle(gs, c, g, type) ==
  IF type = "endTurn"
    THEN [gs EXCEPT !.turnsLeft[g] = @ - 1, !.acted = g]
    ELSE [gs EXCEPT !.turnsLeft[gs.bound[c]] = TurnsInit, !.acted = gs.bound[c]]

\* ws.on('close'): if (ws.gameId && sockets[ws.gameId]) the socket leaves the
\* set of that game and ws.gameId is cleared.
GameCloseHandler(gs, c) ==
  IF gs.bound[c] # NoGame /\ gs.live[gs.bound[c]].exists
    THEN [gs EXCEPT !.live[gs.bound[c]].set = @ \ {c}, !.bound[c] = NoGame,
                    !.closed = @ \cup {c}]
    ELSE [gs EXCEPT !.closed = @ \cup {c}]

\* What the steps on game ids leave alone.
oneGameVars ==
  <<game, ws, inflight, tasks, out, epoch, hist, members, teamflight, leaving, tlog, tokens,
    notes, fetched, sockets, sock, names, anchors, playerIds, up, pflight, store>>

\* An endTurn or a startNewGame message naming a game, handled to its end.
GameMsg ==
  \E c \in Conns \ games.closed, g \in GameIds, type \in {"endTurn", "startNewGame"} :
    /\ nmsgs < MaxGameMsgs
    /\ games' = GameHandle(GameRegister(games, c, g), c, g, type)
    /\ nmsgs' = nmsgs + 1
    /\ UNCHANGED oneGameVars

\* A connection closes.
GameClose ==
  \E c \in Conns \ games.closed :
    /\ games' = GameCloseHandler(games, c)
    /\ UNCHANGED <<oneGameVars, nmsgs>>

NextGames ==
  \/ GameMsg
  \/ GameClose

\* Two connections naming two games.
SpecGames == InitTurn /\ [][NextGames]_vars

\* C24: a connection is in the set of sockets of no game but the one its
\* ws.gameId names, and the handler of a message writes the game the message
\* names.
C24_OneGameAConnection ==
  /\ \A c \in Conns, g \in GameIds : c \in games.live[g].set => games.bound[c] = g
  /\ games.acted = games.named

(* --------------------------- getOrCreateGame ---------------------------- *)

\* db.setGame(gameId, new Game()): a Game is made and stored under the id.
SetNewGame(st) == [st EXCEPT !.made = @ + 1, !.record = st.made + 1]

\* handleRequest after handleInitialRequest: handleStartNewGame stores a new
\* Game under the id whatever is there; the other types store none.
StoreHandle(st, type) == IF type = "startNewGame" THEN SetNewGame(st) ELSE st

\* A message of connection c for the game id. With no sockets[gameId] the set
\* is made and getOrCreateGame is called, which issues db.getGame and awaits;
\* otherwise the socket is in, or is added to, the set and the handler of the
\* type runs.
StoreMessage(st, c, type) ==
  IF ~st.exists
    THEN [st EXCEPT !.exists = TRUE, !.set = {c},
                    !.calls = @ \cup {[c |-> c, type |-> type, pc |-> "got",
                                       gameData |-> st.record]}]
    ELSE StoreHandle([st EXCEPT !.set = @ \cup {c}], type)

\* getOrCreateGame after its await: const game = new Game(gameData); with no
\* gameData it stores the game with db.setGame and awaits that; otherwise it
\* returns the game.
GetOrCreateGame(st, h) ==
  LET rest == st.calls \ {h}
      next == [h EXCEPT !.pc = "resolved"]
  IN  IF h.gameData = NoRecord
        THEN [st EXCEPT !.made = @ + 1, !.record = st.made + 1,
                        !.fresh = @ + 1,
                        !.over = @ \/ st.record # NoRecord,
                        !.got[h.c] = st.made + 1,
                        !.calls = rest \cup {next}]
        ELSE [st EXCEPT !.got[h.c] = h.gameData, !.calls = rest \cup {next}]

\* The promise of getOrCreateGame resolved: handleRequest runs the handler.
StoreResolved(st, h) == StoreHandle([st EXCEPT !.calls = @ \ {h}], h.type)

\* What the steps on the stored game leave alone.
unstoredVars ==
  <<game, ws, inflight, tasks, out, epoch, hist, members, teamflight, leaving, tlog, tokens,
    notes, fetched, sockets, sock, names, anchors, playerIds, up, pflight, games>>

\* The server starts with no sockets[gameId]; the store holds no record under
\* the game id, or the record an earlier run of the server left there.
InitStore ==
  \E r \in {NoRecord, 1} : InitTurnWith([NoStore EXCEPT !.record = r, !.made = r])

CreateMsg ==
  \E c \in Conns, type \in {"startNewGame", "endTurn"} :
    /\ nmsgs < MaxCreateMsgs
    /\ store' = StoreMessage(store, c, type)
    /\ nmsgs' = nmsgs + 1
    /\ UNCHANGED unstoredVars

CreateContinue ==
  \E h \in store.calls :
    /\ store' = IF h.pc = "got" THEN GetOrCreateGame(store, h) ELSE StoreResolved(store, h)
    /\ UNCHANGED <<unstoredVars, nmsgs>>

NextCreate ==
  \/ CreateMsg
  \/ CreateContinue

\* Messages for a game id that may have no record yet.
SpecCreate == InitStore /\ [][NextCreate]_vars

\* C21: getOrCreateGame stores at most one new record for the game id and
\* never stores over a record that is there.
C21_GetOrCreateOnce == store.fresh <= 1 /\ ~store.over

====
